---- MODULE Spec2Model ----
(***************************************************************************)
(* A model of the midjourneyapi client (src/midjourneyapi.go).             *)
(*                                                                         *)
(* The source file holds the package twice: lines 1-245 (Describe built    *)
(* with CreateFormFile, DescribeResponse tagged `task_id`) and lines       *)
(* 247-511 (Describe built with CreatePart, DescribeResponse tagged        *)
(* `taskId`).  Everything else is the same in both copies and is modelled  *)
(* once, from the second copy; the two Describe methods are both modelled, *)
(* as DescribeFormFile (lines 89-129) and Describe (lines 343-395).        *)
(*                                                                         *)
(* A method invocation is two steps of its caller: the method's action     *)
(* builds the request and hands it to http.DefaultClient.Do, and DoReturns *)
(* is the rest of the method, run when Do returns.                         *)
(***************************************************************************)
EXTENDS Integers, Sequences, FiniteSets, TLC

\* ---------------------------------------------------------------- bounds

\* Longest image stream handed to Describe.
MaxImageLen == 2
\* Most values passed for a variadic parameter (callbackURL, position).
MaxVarArgs == 1

\* Two goroutines share the one Client: whether one invocation can disturb
\* another is a question about pairs of invocations.
Callers == {1, 2}

\* ---------------------------------------------------------------- inputs

Credentials == {"key-A", "Bearer key-B"}
Prompts == {"a red fox"}
TaskIds == {"T1"}
ImageURLs == {"https://x/img.png"}
CallbackURLs == {"https://cb", ""}
Positions == {0, 2}
\* What a caller may pass for a variadic parameter.
VarArgs(S) == UNION {[1..n -> S] : n \in 0..MaxVarArgs}
CallbackArgs == VarArgs(CallbackURLs)
PositionArgs == VarArgs(Positions)
ImageBytes == {255}
ImageData == UNION {[1..n -> ImageBytes] : n \in 0..MaxImageLen}
\* An io.Reader: the bytes it yields, and whether it then fails instead of
\* reporting EOF.
Images == [data : ImageData, fails : BOOLEAN]
\* multipart.NewWriter draws the boundary at random.
Boundaries == {"b1", "b2"}

\* ------------------------------------------------------------- constants

host == "https://api.midjourneyapi.io/v2"
ImagineModeFast == "fast"
ImagineModeTurbo == "turbo"
StatusWaitingToStart == "waiting-to-start"
StatusRunning == "running"

Modes == {"", ImagineModeFast, ImagineModeTurbo}

\* ------------------------------------------------------------ JSON values

JStr(s) == [t |-> "string", s |-> s]
JNum(n) == [t |-> "number", n |-> n]
JArr(a) == [t |-> "array", a |-> a]
JObj(m) == [t |-> "object", m |-> m]
JNull == [t |-> "null"]
Member(k, v) == [k |-> k, v |-> v]

\* The error values.
nil == "nil"
ErrSyntax == "json.SyntaxError"
ErrType == "json.UnmarshalTypeError"
ErrRead == "read error"
TransportErrors == {"dial tcp: connection refused"}

\* -------------------------------------------------------- request structs

\* A struct field as encoding/json sees it: its key, its value, and whether
\* its tag says omitempty.
Field(name, v, omitempty) == [name |-> name, v |-> v, omitempty |-> omitempty]

\* encoding/json's isEmptyValue for the two kinds the requests hold.
isEmptyValue(v) == IF v.t = "string" THEN v.s = "" ELSE v.n = 0

\* getArrayFirstOrEmpty[T]: `zero` is T's zero value ("" or 0).
getArrayFirstOrEmpty(a, zero) == IF Len(a) >= 1 THEN a[1] ELSE zero

ResultRequest(taskId, position) ==
    << Field("taskId", JStr(taskId), FALSE),
       Field("position", JNum(position), TRUE) >>

\* A slip: the mode tag without omitempty.
ImagineRequest_noOmitempty(prompt, mode, callbackURL) ==
    << Field("prompt", JStr(prompt), FALSE),
       Field("mode", JStr(mode), FALSE),
       Field("callbackURL", JStr(callbackURL), TRUE) >>

ImagineRequest(prompt, mode, callbackURL) ==
    << Field("prompt", JStr(prompt), FALSE),
       Field("mode", JStr(mode), TRUE),
       Field("callbackURL", JStr(callbackURL), TRUE) >>

SeedRequest(taskId, callbackURL) ==
    << Field("taskId", JStr(taskId), FALSE),
       Field("callbackURL", JStr(callbackURL), FALSE) >>

UpscaleRequest(taskId, position, callbackURL) ==
    << Field("taskId", JStr(taskId), FALSE),
       Field("position", JNum(position), FALSE),
       Field("callback_url", JStr(callbackURL), TRUE) >>

FaceswapRequest(targetImageURL, faceImageURL) ==
    << Field("targetImageURL", JStr(targetImageURL), FALSE),
       Field("faceImageURL", JStr(faceImageURL), FALSE) >>

\* json.NewEncoder(&body).Encode(request): the members of the object, in
\* field order, an omitempty field left out when its value is empty.
RECURSIVE Encode(_)
Encode(request) ==
    IF request = <<>> THEN <<>>
    ELSE LET f == Head(request)
         IN  IF f.omitempty /\ isEmptyValue(f.v)
             THEN Encode(Tail(request))
             ELSE <<Member(f.name, f.v)>> \o Encode(Tail(request))

\* ------------------------------------------------------- multipart bodies

\* One part of a multipart body: its MIME header and its content.
Part(header, body) == [header |-> header, body |-> body]

\* multipart.Writer.CreateFormFile(fieldname, filename)
CreateFormFile(fieldname, filename, data) ==
    Part(("Content-Disposition" :>
             ("form-data; name=\"" \o fieldname \o "\"; filename=\""
                 \o filename \o "\""))
         @@ ("Content-Type" :> "application/octet-stream"),
         [bytes |-> data])

\* multipart.Writer.CreatePart(h), with the header Describe builds.
CreatePart(data) ==
    Part(("Content-Disposition" :>
             "form-data; name=\"image\"; filename=\"image.jpg\"")
         @@ ("Content-Type" :> "image/jpeg"),
         [bytes |-> data])

\* multipart.Writer.WriteField(fieldname, value)
WriteField(fieldname, value) ==
    Part("Content-Disposition" :> ("form-data; name=\"" \o fieldname \o "\""),
         [text |-> value])

\* The optional callbackURL part of Describe.
callbackField(callbackURL) ==
    IF Len(callbackURL) >= 1
    THEN <<WriteField("callbackURL", callbackURL[1])>>
    ELSE <<>>

\* A slip: the Content-Type names the media type and leaves the boundary out.
FormDataContentType_noBoundary(boundary) == "multipart/form-data"

\* multipart.Writer.FormDataContentType() (a random boundary needs no quotes)
FormDataContentType(boundary) == "multipart/form-data; boundary=" \o boundary

\* --------------------------------------------------------------- requests

NoRequest == [Method |-> "none"]

\* A slip: the credential sent as a bearer token.
NewRequest_bearer(method, url, contentType, authorization, body) ==
    [Method |-> method, URL |-> url,
     Header |-> ("Content-Type" :> contentType)
                @@ ("Authorization" :> ("Bearer " \o authorization)),
     Body |-> body]

\* http.NewRequest plus the two Header.Set calls.
NewRequest(method, url, contentType, authorization, body) ==
    [Method |-> method, URL |-> url,
     Header |-> ("Content-Type" :> contentType)
                @@ ("Authorization" :> authorization),
     Body |-> body]

\* postJson up to the call of http.DefaultClient.Do.
postJsonRequest(key, path, request) ==
    NewRequest("POST", host \o path, "application/json", key,
               [kind |-> "json", members |-> Encode(request)])

\* Describe (CreatePart) up to the call of http.DefaultClient.Do.
DescribeRequest(key, boundary, image, callbackURL) ==
    NewRequest("POST", host \o "/describe", FormDataContentType(boundary), key,
               [kind |-> "multipart", boundary |-> boundary,
                parts |-> <<CreatePart(image.data)>>
                          \o callbackField(callbackURL)])

\* Describe (CreateFormFile) up to the call of http.DefaultClient.Do.
DescribeFormFileRequest(key, boundary, image, callbackURL) ==
    NewRequest("POST", host \o "/describe", FormDataContentType(boundary), key,
               [kind |-> "multipart", boundary |-> boundary,
                parts |-> <<CreateFormFile("image", "image.jpg", image.data)>>
                          \o callbackField(callbackURL)])

\* ------------------------------------------------------- response structs

\* A struct field as encoding/json sees it when decoding: the Go field, the
\* key its tag names (the field's own name without a tag) and its type.
FieldSpec(go, key, type) == [go |-> go, key |-> key, type |-> type]

ResultResponse ==
    << FieldSpec("Status", "status", "string"),
       FieldSpec("Percentage", "percentage", "float64") >>
ImagineResponse == << FieldSpec("TaskId", "taskId", "string") >>
ImagineResultResponse ==
    ResultResponse \o << FieldSpec("ImageURL", "image_url", "string") >>
DescribeResponse == << FieldSpec("TaskId", "taskId", "string") >>
DescribeResponseFormFile == << FieldSpec("TaskId", "task_id", "string") >>
DescribeResultResponse ==
    ResultResponse \o << FieldSpec("Content", "content", "[]string") >>
SeedResponse == << FieldSpec("TaskId", "TaskId", "string") >>
SeedResultResponse ==
    ResultResponse \o << FieldSpec("Seed", "seed", "string") >>
UpscaleResponse == << FieldSpec("ImageURL", "imageURL", "string") >>
FaceswapResponse == << FieldSpec("ImageURL", "imageURL", "string") >>

\* The zero value of a Go type, and of a struct (`var result T`).
zeroOf(type) ==
    CASE type = "string" -> ""
      [] type = "float64" -> 0
      [] type = "[]string" -> <<>>
Zero(struct) ==
    [go \in {struct[i].go : i \in DOMAIN struct} |->
        zeroOf(struct[CHOOSE i \in DOMAIN struct : struct[i].go = go].type)]

\* --------------------------------------------------------------- decoding

\* A response body: the first JSON value in it (Invalid when the bytes do
\* not start with one, Broken when reading them fails), and whether more
\* than white space follows that value.
Invalid == [t |-> "invalid"]
Broken == [t |-> "broken"]
Body(first, rest) == [first |-> first, rest |-> rest]

\* encoding/json matches keys to fields ignoring the case of letters.
foldName(k) ==
    CASE k = "taskId" -> "TASKID"
      [] k = "TaskId" -> "TASKID"
      [] k = "task_id" -> "TASK_ID"
      [] k = "imageURL" -> "IMAGEURL"
      [] k = "image_url" -> "IMAGE_URL"
      [] k = "status" -> "STATUS"
      [] k = "percentage" -> "PERCENTAGE"
      [] k = "content" -> "CONTENT"
      [] k = "seed" -> "SEED"
      [] OTHER -> k

\* The field a key decodes into: the one whose key is equal, else the
\* first whose key is equal ignoring case; 0 when there is none.
matchField(struct, key) ==
    IF \E i \in DOMAIN struct : struct[i].key = key
    THEN CHOOSE i \in DOMAIN struct : struct[i].key = key
    ELSE IF \E i \in DOMAIN struct : foldName(struct[i].key) = foldName(key)
    THEN CHOOSE i \in DOMAIN struct :
            /\ foldName(struct[i].key) = foldName(key)
            /\ \A j \in DOMAIN struct :
                  foldName(struct[j].key) = foldName(key) => i <= j
    ELSE 0

\* Whether a JSON value fits a Go type, and the Go value it decodes to (an
\* array element that does not fit is left zero).
fits(type, v) ==
    CASE type = "string" -> v.t = "string"
      [] type = "float64" -> v.t = "number"
      [] type = "[]string" ->
            /\ v.t = "array"
            /\ \A i \in DOMAIN v.a : v.a[i].t \in {"string", "null"}
goValue(type, v) ==
    CASE type = "string" -> v.s
      [] type = "float64" -> v.n
      [] type = "[]string" ->
            [i \in DOMAIN v.a |-> IF v.a[i].t = "string" THEN v.a[i].s ELSE ""]

\* decodeState.object: the members in order; a null leaves the field as it
\* is, a value of the wrong type saves the first such error and decoding
\* goes on with the next member.
RECURSIVE object(_, _, _, _)
object(members, struct, target, err) ==
    IF members = <<>> THEN [value |-> target, err |-> err]
    ELSE LET m == Head(members)
             i == matchField(struct, m.k)
         IN  IF i = 0 \/ m.v.t = "null"
             THEN object(Tail(members), struct, target, err)
             ELSE IF fits(struct[i].type, m.v)
             THEN object(Tail(members), struct,
                         [target EXCEPT ![struct[i].go] =
                             goValue(struct[i].type, m.v)],
                         err)
             ELSE IF struct[i].type = "[]string" /\ m.v.t = "array"
             THEN object(Tail(members), struct,
                         [target EXCEPT ![struct[i].go] =
                             goValue(struct[i].type, m.v)],
                         IF err = nil THEN ErrType ELSE err)
             ELSE object(Tail(members), struct, target,
                         IF err = nil THEN ErrType ELSE err)

\* decodeState.unmarshal of one well-formed value into a struct.
unmarshal(v, struct, target) ==
    CASE v.t = "null" -> [value |-> target, err |-> nil]
      [] v.t = "object" -> object(v.m, struct, target, nil)
      [] OTHER -> [value |-> target, err |-> ErrType]

\* json.NewDecoder(res.Body).Decode(&result): reads one value from the
\* stream and decodes it; what follows the value is not looked at.
Decode(body, struct, target) ==
    CASE body.first.t = "broken" -> [value |-> target, err |-> ErrRead]
      [] body.first.t = "invalid" -> [value |-> target, err |-> ErrSyntax]
      [] OTHER -> unmarshal(body.first, struct, target)

\* io.ReadAll(res.Body) then json.Unmarshal(resbody, &result): the whole
\* body must be one value.
Unmarshal(body, struct, target) ==
    CASE body.first.t = "broken" -> [value |-> target, err |-> ErrRead]
      [] body.first.t = "invalid" \/ body.rest ->
            [value |-> target, err |-> ErrSyntax]
      [] OTHER -> unmarshal(body.first, struct, target)

\* ---------------------------------------------------------------- replies

StatusCodes == {200, 500}

bodyTaskId == Body(JObj(<<Member("taskId", JStr("T1"))>>), FALSE)
bodyImageURL == Body(JObj(<<Member("imageURL", JStr("https://x/img.png"))>>), FALSE)
bodyResult ==
    Body(JObj(<<Member("status", JStr(StatusRunning)),
                Member("percentage", JNum(50)),
                Member("image_url", JStr("https://x/img.png")),
                Member("content", JArr(<<JStr("a fox")>>)),
                Member("seed", JStr("1234"))>>), FALSE)
\* Not JSON at all (an HTML error page, say).
bodyNotJSON == Body(Invalid, FALSE)
\* A JSON object followed by something that is not JSON.
bodyTrailing ==
    Body(JObj(<<Member("taskId", JStr("T1")),
                Member("imageURL", JStr("https://x/img.png"))>>), TRUE)
\* Well-formed JSON of the wrong shape: keys repeated, the second time with
\* a number where the struct has a string.
bodyWrongShape ==
    Body(JObj(<<Member("taskId", JStr("T1")),
                Member("imageURL", JStr("https://x/img.png")),
                Member("status", JStr(StatusWaitingToStart)),
                Member("taskId", JNum(5)),
                Member("imageURL", JNum(5)),
                Member("percentage", JStr("50%"))>>), FALSE)
\* The connection breaks while the body is read.
bodyBroken == Body(Broken, FALSE)

Bodies == {bodyTaskId, bodyImageURL, bodyResult, bodyNotJSON, bodyTrailing,
           bodyWrongShape, bodyBroken}

\* What http.DefaultClient.Do returns: an error, or a response.
NoReply == [err |-> "none"]
Replies ==
    [err : TransportErrors]
    \cup [err : {nil}, StatusCode : StatusCodes, Body : Bodies]

\* ---------------------------------------------------------------- results

StrResult(s) == [kind |-> "string", s |-> s]
PtrResult(r) == [kind |-> "pointer", isNil |-> FALSE, elem |-> r]
NilPtr == [kind |-> "pointer", isNil |-> TRUE]
Returned(val, err) == [val |-> val, err |-> err]
NoReturn == [err |-> "none"]

\* A slip: the transport's error wrapped before it is returned.
postJson_wrapsError(r, struct, result) ==
    IF r.err # nil
    THEN [value |-> result, err |-> "midjourneyapi: " \o r.err]
    ELSE Decode(r.Body, struct, result)

\* A slip (or a hardening): a reply that is not 2xx made an error.
postJson_checksStatus(r, struct, result) ==
    IF r.err # nil THEN [value |-> result, err |-> r.err]
    ELSE IF r.StatusCode \notin 200..299
    THEN [value |-> result, err |-> "unexpected status"]
    ELSE Decode(r.Body, struct, result)

\* postJson from the return of http.DefaultClient.Do on: `result` is the
\* caller's variable, decoded into through the response pointer.
postJson(r, struct, result) ==
    IF r.err # nil THEN [value |-> result, err |-> r.err]
    ELSE Decode(r.Body, struct, result)

\* Each method from the return of http.DefaultClient.Do on.
ImagineReturn(r) ==
    LET p == postJson(r, ImagineResponse, Zero(ImagineResponse))
    IN  Returned(StrResult(p.value.TaskId), p.err)

ImagineResultReturn(r) ==
    LET p == postJson(r, ImagineResultResponse, Zero(ImagineResultResponse))
    IN  IF p.err # nil THEN Returned(NilPtr, p.err)
        ELSE Returned(PtrResult(p.value), nil)

DescribeReturn(r) ==
    IF r.err # nil THEN Returned(StrResult(""), r.err)
    ELSE LET p == Unmarshal(r.Body, DescribeResponse, Zero(DescribeResponse))
         IN  IF p.err # nil THEN Returned(StrResult(""), p.err)
             ELSE Returned(StrResult(p.value.TaskId), nil)

DescribeFormFileReturn(r) ==
    IF r.err # nil THEN Returned(StrResult(""), r.err)
    ELSE LET p == Decode(r.Body, DescribeResponseFormFile,
                         Zero(DescribeResponseFormFile))
         IN  IF p.err # nil THEN Returned(StrResult(""), p.err)
             ELSE Returned(StrResult(p.value.TaskId), nil)

DescribeResultReturn(r) ==
    LET p == postJson(r, DescribeResultResponse, Zero(DescribeResultResponse))
    IN  IF p.err # nil THEN Returned(NilPtr, p.err)
        ELSE Returned(PtrResult(p.value), nil)

SeedReturn(r) ==
    LET p == postJson(r, SeedResponse, Zero(SeedResponse))
    IN  Returned(StrResult(p.value.TaskId), p.err)

SeedResultReturn(r) ==
    LET p == postJson(r, SeedResultResponse, Zero(SeedResultResponse))
    IN  IF p.err # nil THEN Returned(NilPtr, p.err)
        ELSE Returned(PtrResult(p.value), nil)

UpscaleReturn(r) ==
    LET p == postJson(r, UpscaleResponse, Zero(UpscaleResponse))
    IN  Returned(StrResult(p.value.ImageURL), p.err)

FaceswapReturn(r) ==
    LET p == postJson(r, FaceswapResponse, Zero(FaceswapResponse))
    IN  Returned(StrResult(p.value.ImageURL), p.err)

Return(method, r) ==
    CASE method = "Imagine" -> ImagineReturn(r)
      [] method = "ImagineResult" -> ImagineResultReturn(r)
      [] method = "Describe" -> DescribeReturn(r)
      [] method = "DescribeFormFile" -> DescribeFormFileReturn(r)
      [] method = "DescribeResult" -> DescribeResultReturn(r)
      [] method = "Seed" -> SeedReturn(r)
      [] method = "SeedResult" -> SeedResultReturn(r)
      [] method = "Upscale" -> UpscaleReturn(r)
      [] method = "Faceswap" -> FaceswapReturn(r)

Methods == {"Imagine", "ImagineResult", "Describe", "DescribeFormFile",
            "DescribeResult", "Seed", "SeedResult", "Upscale", "Faceswap"}
StringMethods == {"Imagine", "Describe", "DescribeFormFile", "Seed",
                  "Upscale", "Faceswap"}
PointerMethods == {"ImagineResult", "DescribeResult", "SeedResult"}

\* ------------------------------------------------------------------ state

VARIABLES
    apiKey,   \* Client.apiKey
    pc,       \* per caller: "idle", "inflight" (inside Do) or "returned"
    method,   \* per caller: the method it is in or has just returned from
    args,     \* per caller: the arguments of the invocation that is inside Do
    wire,     \* per caller: the request it has handed to Do
    sent,     \* per caller: how often the invocation has called Do
    reply,    \* per caller: what Do returned
    ret       \* per caller: what the method returned

vars == <<apiKey, pc, method, args, wire, sent, reply, ret>>

NoArgs == [none |-> TRUE]

\* A slip: the variable declared at package level, one copy for all callers.
Local_shared(f, c, v) == [d \in DOMAIN f |-> v]

\* The variables of a method invocation (`var body`, `var result`, req,
\* res) are locals: an assignment writes the invoking caller's copy.
Local(f, c, v) == [f EXCEPT ![c] = v]

\* NewClient(apiKey), and nobody has called anything yet.
Init ==
    /\ apiKey \in Credentials
    /\ pc = [c \in Callers |-> "idle"]
    /\ method = [c \in Callers |-> "none"]
    /\ args = [c \in Callers |-> NoArgs]
    /\ wire = [c \in Callers |-> NoRequest]
    /\ sent = [c \in Callers |-> 0]
    /\ reply = [c \in Callers |-> NoReply]
    /\ ret = [c \in Callers |-> NoReturn]

\* The invocation calls http.DefaultClient.Do(req) and waits in it.
Do(c, m, a, req) ==
    /\ pc' = [pc EXCEPT ![c] = "inflight"]
    /\ method' = [method EXCEPT ![c] = m]
    /\ args' = [args EXCEPT ![c] = a]
    /\ wire' = Local(wire, c, req)
    /\ sent' = [sent EXCEPT ![c] = @ + 1]
    /\ UNCHANGED <<apiKey, reply, ret>>

\* The invocation returns without calling Do: `return "", err`.
returnEarly(c, m, err) ==
    /\ pc' = [pc EXCEPT ![c] = "returned"]
    /\ method' = [method EXCEPT ![c] = m]
    /\ ret' = Local(ret, c, Returned(StrResult(""), err))
    /\ UNCHANGED <<apiKey, args, wire, sent, reply>>

Imagine(c) ==
    /\ pc[c] = "idle"
    /\ \E prompt \in Prompts, mode \in Modes, callbackURL \in CallbackArgs :
          Do(c, "Imagine",
             [prompt |-> prompt, mode |-> mode, callbackURL |-> callbackURL],
             postJsonRequest(apiKey, "/imagine",
                 ImagineRequest(prompt, mode,
                                getArrayFirstOrEmpty(callbackURL, ""))))

ImagineResult(c) ==
    /\ pc[c] = "idle"
    /\ \E taskId \in TaskIds, position \in PositionArgs :
          Do(c, "ImagineResult",
             [taskId |-> taskId, position |-> position],
             postJsonRequest(apiKey, "/result",
                 ResultRequest(taskId, getArrayFirstOrEmpty(position, 0))))

Describe(c) ==
    /\ pc[c] = "idle"
    /\ \E image \in Images, callbackURL \in CallbackArgs,
          boundary \in Boundaries :
          IF image.fails
          THEN returnEarly(c, "Describe", ErrRead)
          ELSE Do(c, "Describe",
                  [image |-> image, callbackURL |-> callbackURL,
                   boundary |-> boundary],
                  DescribeRequest(apiKey, boundary, image, callbackURL))

DescribeFormFile(c) ==
    /\ pc[c] = "idle"
    /\ \E image \in Images, callbackURL \in CallbackArgs,
          boundary \in Boundaries :
          IF image.fails
          THEN returnEarly(c, "DescribeFormFile", ErrRead)
          ELSE Do(c, "DescribeFormFile",
                  [image |-> image, callbackURL |-> callbackURL,
                   boundary |-> boundary],
                  DescribeFormFileRequest(apiKey, boundary, image, callbackURL))

DescribeResult(c) ==
    /\ pc[c] = "idle"
    /\ \E taskId \in TaskIds :
          Do(c, "DescribeResult", [taskId |-> taskId],
             postJsonRequest(apiKey, "/result", ResultRequest(taskId, 0)))

Seed(c) ==
    /\ pc[c] = "idle"
    /\ \E taskId \in TaskIds, callbackURL \in CallbackArgs :
          Do(c, "Seed", [taskId |-> taskId, callbackURL |-> callbackURL],
             postJsonRequest(apiKey, "/seed",
                 SeedRequest(taskId, getArrayFirstOrEmpty(callbackURL, ""))))

SeedResult(c) ==
    /\ pc[c] = "idle"
    /\ \E taskId \in TaskIds :
          Do(c, "SeedResult", [taskId |-> taskId],
             postJsonRequest(apiKey, "/result", ResultRequest(taskId, 0)))

Upscale(c) ==
    /\ pc[c] = "idle"
    /\ \E taskId \in TaskIds, position \in Positions,
          callbackURL \in CallbackArgs :
          Do(c, "Upscale",
             [taskId |-> taskId, position |-> position,
              callbackURL |-> callbackURL],
             postJsonRequest(apiKey, "/upscale",
                 UpscaleRequest(taskId, position,
                                getArrayFirstOrEmpty(callbackURL, ""))))

Faceswap(c) ==
    /\ pc[c] = "idle"
    /\ \E targetImageURL \in ImageURLs, faceImageURL \in ImageURLs :
          Do(c, "Faceswap",
             [targetImageURL |-> targetImageURL,
              faceImageURL |-> faceImageURL],
             postJsonRequest(apiKey, "/faceswap",
                 FaceswapRequest(targetImageURL, faceImageURL)))

\* A slip: a transport error answered by sending the request again.
DoReturns_retries(c) ==
    /\ pc[c] = "inflight"
    /\ \E r \in Replies :
          IF r.err # nil /\ sent[c] < 2
          THEN /\ sent' = [sent EXCEPT ![c] = @ + 1]
               /\ UNCHANGED <<apiKey, pc, method, args, wire, reply, ret>>
          ELSE /\ reply' = [reply EXCEPT ![c] = r]
               /\ ret' = [ret EXCEPT ![c] = Return(method[c], r)]
               /\ pc' = [pc EXCEPT ![c] = "returned"]
               /\ args' = [args EXCEPT ![c] = NoArgs]
               /\ wire' = [wire EXCEPT ![c] = NoRequest]
               /\ UNCHANGED <<apiKey, method, sent>>

\* Do returns, and the rest of the method runs: it decodes and returns.
DoReturns(c) ==
    /\ pc[c] = "inflight"
    /\ \E r \in Replies :
          /\ reply' = Local(reply, c, r)
          /\ ret' = Local(ret, c, Return(method[c], r))
    /\ pc' = [pc EXCEPT ![c] = "returned"]
    /\ args' = [args EXCEPT ![c] = NoArgs]
    /\ wire' = Local(wire, c, NoRequest)
    /\ UNCHANGED <<apiKey, method, sent>>

\* The caller has its result and is free to call again.
Done(c) ==
    /\ pc[c] = "returned"
    /\ pc' = [pc EXCEPT ![c] = "idle"]
    /\ method' = [method EXCEPT ![c] = "none"]
    /\ sent' = [sent EXCEPT ![c] = 0]
    /\ reply' = Local(reply, c, NoReply)
    /\ ret' = Local(ret, c, NoReturn)
    /\ UNCHANGED <<apiKey, args, wire>>

Next ==
    \E c \in Callers :
        \/ Imagine(c)
        \/ ImagineResult(c)
        \/ Describe(c)
        \/ DescribeFormFile(c)
        \/ DescribeResult(c)
        \/ Seed(c)
        \/ SeedResult(c)
        \/ Upscale(c)
        \/ Faceswap(c)
        \/ DoReturns(c)
        \/ Done(c)

Spec == Init /\ [][Next]_vars

\* ----------------------------------------------------------------- claims

InFlight(c) == pc[c] = "inflight"
HasReturned(c) == pc[c] = "returned"
\* The invocation returned after Do gave it a response (no transport error).
GotResponse(c) == HasReturned(c) /\ reply[c].err = nil
DescribeMethods == {"Describe", "DescribeFormFile"}

\* The zero value of a method's result: "" or a nil pointer.
ZeroResult(m) == IF m \in StringMethods THEN StrResult("") ELSE NilPtr

\* C1: when http.DefaultClient.Do returns an error, the method returns that
\* very error, and the empty string (Imagine, Describe, Seed, Upscale,
\* Faceswap) or a nil pointer (the three Result methods).
C1_TransportErrorUnchanged ==
    \A c \in Callers :
        HasReturned(c) /\ reply[c].err \in TransportErrors
            => ret[c] = Returned(ZeroResult(method[c]), reply[c].err)

C1_Witness ==
    \E c, d \in Callers :
        /\ HasReturned(c) /\ method[c] = "Imagine"
        /\ reply[c].err \in TransportErrors
        /\ HasReturned(d) /\ method[d] = "SeedResult"
        /\ reply[d].err \in TransportErrors

\* C4: every request handed to the transport has an Authorization header,
\* and its value is the credential given to NewClient, as it is.
C4_AuthorizationIsCredential ==
    \A c \in Callers :
        InFlight(c) =>
            /\ "Authorization" \in DOMAIN wire[c].Header
            /\ wire[c].Header["Authorization"] = apiKey

C4_Witness ==
    /\ apiKey = "Bearer key-B"
    /\ \E c, d \in Callers :
        /\ InFlight(c) /\ method[c] = "Describe"
        /\ InFlight(d) /\ method[d] = "Upscale"

\* C7: an invocation calls the transport at most once: once when it built
\* its request, never when reading the image failed, and it has returned
\* after that one call came back.
C7_AtMostOneRequest ==
    \A c \in Callers :
        /\ sent[c] <= 1
        /\ pc[c] = "idle" => sent[c] = 0
        /\ InFlight(c) => sent[c] = 1 /\ wire[c] # NoRequest
        /\ HasReturned(c) =>
              /\ wire[c] = NoRequest
              /\ sent[c] = (IF reply[c] = NoReply THEN 0 ELSE 1)
              /\ reply[c] = NoReply => ret[c].err = ErrRead

C7_Witness ==
    \E c, d \in Callers :
        /\ HasReturned(c) /\ method[c] = "Describe"
        /\ ret[c].err = ErrRead /\ sent[c] = 0
        /\ HasReturned(d) /\ reply[d].err \in TransportErrors /\ sent[d] = 1

\* The path each method posts to.
PathOf(m) ==
    CASE m = "Imagine" -> "/imagine"
      [] m \in PointerMethods -> "/result"
      [] m \in DescribeMethods -> "/describe"
      [] m = "Seed" -> "/seed"
      [] m = "Upscale" -> "/upscale"
      [] m = "Faceswap" -> "/faceswap"

\* C9: every request is a POST to the fixed host and the method's own path;
\* Describe sends a multipart body and names, in Content-Type, the boundary
\* that body was written with; every other method sends a JSON body with
\* Content-Type application/json.
C9_ContentTypeAndPath ==
    \A c \in Callers :
        InFlight(c) =>
            /\ wire[c].Method = "POST"
            /\ wire[c].URL = "https://api.midjourneyapi.io/v2" \o PathOf(method[c])
            /\ IF method[c] \in DescribeMethods
               THEN /\ wire[c].Body.kind = "multipart"
                    /\ wire[c].Header["Content-Type"] =
                          "multipart/form-data; boundary=" \o wire[c].Body.boundary
                    /\ wire[c].Body.boundary = args[c].boundary
               ELSE /\ wire[c].Body.kind = "json"
                    /\ wire[c].Header["Content-Type"] = "application/json"

C9_Witness ==
    \E c, d \in Callers :
        /\ InFlight(c) /\ method[c] = "Describe" /\ args[c].boundary = "b1"
        /\ InFlight(d) /\ method[d] = "DescribeFormFile"
        /\ args[d].boundary = "b2"

\* C10: the status code decides nothing: two invocations of one method that
\* got the same body with any two status codes returned the same result
\* and the same error.
C10_StatusCodeIgnored ==
    \A c, d \in Callers :
        /\ GotResponse(c) /\ GotResponse(d)
        /\ method[c] = method[d]
        /\ reply[c].Body = reply[d].Body
        => ret[c] = ret[d]

C10_Witness ==
    \E c, d \in Callers :
        /\ GotResponse(c) /\ GotResponse(d)
        /\ method[c] = "Imagine" /\ method[d] = "Imagine"
        /\ reply[c].Body = bodyTaskId /\ reply[d].Body = bodyTaskId
        /\ reply[c].StatusCode = 200 /\ reply[d].StatusCode = 500
        /\ ret[d] = Returned(StrResult("T1"), nil)

\* The name a multipart part carries in its Content-Disposition.
PartName(p) ==
    CASE p.header["Content-Disposition"] =
            "form-data; name=\"image\"; filename=\"image.jpg\"" -> "image"
      [] p.header["Content-Disposition"] =
            "form-data; name=\"callbackURL\"" -> "callbackURL"
      [] OTHER -> "?"

\* The field names a request body carries.
BodyKeys(req) ==
    IF req.Body.kind = "json"
    THEN {req.Body.members[i].k : i \in DOMAIN req.Body.members}
    ELSE {PartName(req.Body.parts[i]) : i \in DOMAIN req.Body.parts}
ValueOf(req, k) ==
    req.Body.members[CHOOSE i \in DOMAIN req.Body.members :
                        req.Body.members[i].k = k].v

DocumentedKeys(m) ==
    CASE m = "Imagine" -> {"prompt", "mode", "callbackURL"}
      [] m \in PointerMethods -> {"taskId", "position"}
      [] m \in DescribeMethods -> {"image", "callbackURL"}
      [] m = "Seed" -> {"taskId", "callbackURL"}
      [] m = "Upscale" -> {"taskId", "position", "callback_url"}
      [] m = "Faceswap" -> {"targetImageURL", "faceImageURL"}

\* The required fields; seedOptional says whether Seed's callbackURL is
\* taken to be optional.
RequiredKeys(m, seedOptional) ==
    CASE m = "Imagine" -> {"prompt"}
      [] m \in PointerMethods -> {"taskId"}
      [] m \in DescribeMethods -> {"image"}
      [] m = "Seed" ->
            IF seedOptional THEN {"taskId"} ELSE {"taskId", "callbackURL"}
      [] m = "Upscale" -> {"taskId", "position"}
      [] m = "Faceswap" -> {"targetImageURL", "faceImageURL"}

\* The optional fields whose input the caller did not supply.
NotSupplied(m, a, seedOptional) ==
    CASE m = "Imagine" ->
            (IF a.mode = "" THEN {"mode"} ELSE {})
            \cup (IF a.callbackURL = <<>> THEN {"callbackURL"} ELSE {})
      [] m = "ImagineResult" ->
            IF a.position = <<>> THEN {"position"} ELSE {}
      [] m \in {"DescribeResult", "SeedResult"} -> {"position"}
      [] m \in DescribeMethods ->
            IF a.callbackURL = <<>> THEN {"callbackURL"} ELSE {}
      [] m = "Seed" ->
            IF seedOptional /\ a.callbackURL = <<>>
            THEN {"callbackURL"} ELSE {}
      [] m = "Upscale" ->
            IF a.callbackURL = <<>> THEN {"callback_url"} ELSE {}
      [] m = "Faceswap" -> {}

FieldNamesAsDocumented(c, seedOptional) ==
    /\ BodyKeys(wire[c]) \subseteq DocumentedKeys(method[c])
    /\ RequiredKeys(method[c], seedOptional) \subseteq BodyKeys(wire[c])
    /\ NotSupplied(method[c], args[c], seedOptional) \cap BodyKeys(wire[c]) = {}

\* C3, as claimed: a request body carries only the documented field names,
\* every required field, and no optional field (Imagine mode and
\* callbackURL, Result position, Seed callbackURL, Upscale callback_url,
\* Describe callbackURL) whose input the caller did not supply.
C3_OptionalFieldsOmitted ==
    \A c \in Callers : InFlight(c) => FieldNamesAsDocumented(c, TRUE)

\* C3, amended: the same, except that Seed's callbackURL is not optional
\* on the wire: Seed always sends it, as "" when no callback URL is given.
C3_SeedAlwaysSendsCallbackURL ==
    \A c \in Callers :
        InFlight(c) =>
            /\ FieldNamesAsDocumented(c, FALSE)
            /\ method[c] = "Seed" /\ args[c].callbackURL = <<>>
                  => ValueOf(wire[c], "callbackURL") = JStr("")

C3_Witness ==
    \E c, d \in Callers :
        /\ InFlight(c) /\ method[c] = "Seed" /\ args[c].callbackURL = <<>>
        /\ InFlight(d) /\ method[d] = "Imagine"
        /\ args[d].mode = "" /\ args[d].callbackURL = <<>>
        /\ BodyKeys(wire[d]) = {"prompt"}

\* C5, as claimed: the body Describe builds has exactly one part named
\* image (filename image.jpg), of content type image/jpeg, holding the
\* bytes of the image; plus exactly one form field callbackURL with the
\* given value when a callback URL is given, and none otherwise.
C5_DescribeMultipartBody ==
    \A c \in Callers :
        InFlight(c) /\ method[c] \in DescribeMethods =>
            LET parts == wire[c].Body.parts
                images == {i \in DOMAIN parts : PartName(parts[i]) = "image"}
                fields == {i \in DOMAIN parts :
                              PartName(parts[i]) = "callbackURL"}
            IN  /\ Cardinality(images) = 1
                /\ images \cup fields = DOMAIN parts
                /\ \A i \in images :
                      /\ "Content-Type" \in DOMAIN parts[i].header
                      /\ parts[i].header["Content-Type"] = "image/jpeg"
                      /\ parts[i].body = [bytes |-> args[c].image.data]
                /\ IF Len(args[c].callbackURL) >= 1
                   THEN /\ Cardinality(fields) = 1
                        /\ \A i \in fields :
                              parts[i].body = [text |-> args[c].callbackURL[1]]
                   ELSE fields = {}

\* The response field each string-returning method is documented to read.
DocumentedField(m) ==
    IF m \in {"Upscale", "Faceswap"} THEN "imageURL" ELSE "taskId"

\* C6, as claimed: when the server replies with a JSON object carrying the
\* documented field (taskId for Imagine, Describe and Seed, imageURL for
\* Upscale and Faceswap), the method returns that field's value and a nil
\* error.
C6_DocumentedFieldReturned ==
    \A c \in Callers :
        LET b == reply[c].Body
        IN  /\ GotResponse(c) /\ method[c] \in StringMethods
            /\ ~b.rest /\ b.first.t = "object" /\ Len(b.first.m) = 1
            /\ b.first.m[1].k = DocumentedField(method[c])
            /\ b.first.m[1].v.t = "string"
            => ret[c] = Returned(StrResult(b.first.m[1].v.s), nil)

\* C2, as claimed: an error is never returned together with a value other
\* than the zero value, and a body that is not one well-formed JSON value
\* (or cannot be read) is never a success.
C2_NoPartialResult ==
    \A c \in Callers :
        /\ HasReturned(c) /\ ret[c].err # nil
              => ret[c].val = ZeroResult(method[c])
        /\ GotResponse(c)
           /\ (reply[c].Body.first.t \in {"invalid", "broken"}
               \/ reply[c].Body.rest)
              => ret[c].err # nil

\* What belongs to one caller's invocation.
Slot(c) == <<pc[c], method[c], args[c], wire[c], sent[c], reply[c], ret[c]>>

\* Two invocations of one method with the same inputs have the same
\* request, and with the same reply the same result.
C8_OwnInputsOnly ==
    \A c, d \in Callers :
        /\ InFlight(c) /\ InFlight(d) /\ method[c] = method[d]
           /\ args[c] = args[d]
              => wire[c] = wire[d]
        /\ HasReturned(c) /\ HasReturned(d) /\ method[c] = method[d]
           /\ reply[c] = reply[d]
              => ret[c] = ret[d]

\* C8: callers may interleave in any way: no step writes the credential,
\* a step of one caller's invocation leaves everything of the other
\* callers' invocations as it was, and a request and a result are decided
\* by the invocation's own inputs and its own reply.
C8_CallsDoNotInterfere ==
    /\ []C8_OwnInputsOnly
    /\ [][/\ apiKey' = apiKey
          /\ \A c \in Callers :
                (\E d \in Callers \ {c} : pc'[d] # pc[d])
                    => Slot(c)' = Slot(c)]_vars

C8_Witness ==
    \E c, d \in Callers :
        /\ c # d
        /\ InFlight(c) /\ method[c] = "Describe"
        /\ HasReturned(d) /\ method[d] = "Seed"
        /\ ret[d] = Returned(StrResult("T1"), nil)

====
